---- MODULE Spec2Model ----
(***************************************************************************)
(* Model of the process supervision engine of Game-Server-Launcher         *)
(* (server_manager.py): ServerManager.start_server / stop_server /         *)
(* restart_server called from concurrent caller threads, the per-start     *)
(* watcher thread (_watch_process), and the child processes themselves.    *)
(*                                                                         *)
(* Every step of a thread touches shared state (registry, lock, a handle   *)
(* field, the child process) at most once, so the interleavings of the     *)
(* model are those of the Python threads.                                  *)
(***************************************************************************)
EXTENDS Integers, Sequences, FiniteSets, TLC

(* ---------------------------------------------------------------------- *)
(* Bounds                                                                  *)
(* ---------------------------------------------------------------------- *)
\* number of child processes that may be spawned in one behaviour
MaxSpawns == 2
\* the nonzero grace period, counted in 0.2s sleeps of stop_server's loop
GraceTicks == 1
\* capacity of a child's stdin pipe, counted in command lines
PipeCap == 1
\* number of lines a child writes to each of its output streams
MaxLines == 2
\* number of configuration records added in one behaviour
MaxConfigs == 2

\* caller threads: main.py runs every start, stop and restart request of the
\* UI in a thread of its own, which makes that one call and ends
Callers == {1, 2}
\* server ids
ServerIds == {"s1"}
\* handles (ServerProcess objects); 0 stands for None
Handles == 1..MaxSpawns
NoHandle == 0
\* owner of the registry lock: 0 free, a caller, or the watcher of a handle
NoThread == 0
WatcherTid(h) == 10 + h
\* timeouts the callers pass to stop_server (main.py passes 0 or 15 s)
Timeouts == {0, GraceTicks}

VARIABLES
    registry,   \* ServerManager._processes : server id -> handle or NoHandle
    lock,       \* owner of ServerManager._lock
    hd,         \* handle -> ServerProcess fields and the state of its child
    wt,         \* handle -> the watcher thread started by the start that spawned it
    th,         \* caller -> position and locals of the call it is executing
    nSpawned,   \* number of children spawned so far
    streams,    \* handle -> the stdout and stderr pipes of its child
    rd,         \* handle -> its two reader threads (ServerProcess._reader_threads)
    console,    \* handle -> stdout_lines and the lines its callback has received
    rs,         \* a call of _resolve_script: its argument, the host and its result
    cm          \* the ConfigManager: its JSON file and the last call made on it

vars == <<registry, lock, hd, wt, th, nSpawned, streams, rd, console, rs, cm>>

\* the state of output capture, and the state of the parts of the launcher
\* that the supervisor's threads do not touch
capture == <<streams, rd, console>>
aside == <<rs, cm>>

(* ---------------------------------------------------------------------- *)
(* Child process and ServerProcess                                         *)
(* ---------------------------------------------------------------------- *)
\* ServerProcess.__init__ on a freshly spawned Popen
NewHandle(s, cb) ==
    [ sid |-> s,             \* server_id
      alive |-> TRUE,        \* the child has not terminated
      killPending |-> FALSE, \* SIGKILL sent, child not yet terminated
      exit |-> "none",       \* why the child terminated
      stopReq |-> FALSE,     \* _stop_requested
      pipe |-> 0,            \* lines in the stdin pipe not yet read by the child
      stdinOpen |-> TRUE,    \* the child still holds the read end of its stdin
      hasCb |-> cb,          \* the start was given an on_output callback
      readers |-> cb,        \* start_readers was called
      markers |-> 0,         \* "[PROCESS EXITED]" lines delivered for this handle
      markerRc |-> 0,        \* return code carried by the last marker
      logs |-> 0,            \* crash logs written for this handle
      unexpected |-> FALSE,  \* the child terminated with no stop of its id called before
      rawSignal |-> FALSE ]  \* a command or kill was sent while stopReq was false

Unused ==
    [ sid |-> "none", alive |-> FALSE, killPending |-> FALSE, exit |-> "unused",
      stopReq |-> FALSE, pipe |-> 0, stdinOpen |-> FALSE, hasCb |-> FALSE,
      readers |-> FALSE, markers |-> 0, markerRc |-> 0, logs |-> 0,
      unexpected |-> FALSE, rawSignal |-> FALSE ]

\* Popen.poll() is None
PollIsNone(h) == hd[h].alive

\* Popen.returncode after termination
ReturnCode(h) ==
    CASE hd[h].exit = "killed" -> 0 - 9
      [] hd[h].exit = "exited" -> 1
      [] OTHER -> 0

Idle == [ pc |-> "idle", op |-> "none", sid |-> "none", sp |-> NoHandle,
          timeout |-> 0, elapsed |-> 0, ret |-> "none", stopRes |-> "none",
          cb |-> FALSE, mine |-> NoHandle, dup |-> FALSE, ev |-> <<>>,
          out |-> <<>> ]

WatcherOff == [ pc |-> "off", sp |-> NoHandle, cb |-> FALSE, rc |-> 0, sid |-> "none" ]

\* the handles whose output capture is followed line by line
Captured == DOMAIN rd

\* the two output streams of a child
Labels == {"OUT", "ERR"}

\* the k-th line a child writes to its stream l, as readline() returns it:
\* the characters that tell the stream and the line, and the line terminator
LineChars == <<"a", "b", "c", "d">>
RawLine(l, k) == <<l, LineChars[k], "\n">>

\* a stream of a child: the lines in the pipe that were not read yet and the
\* number of lines the child has written to it
NoOutput == [l \in Labels |-> [pipe |-> <<>>, written |-> 0]]

\* a reader thread: its position in _reader, the text it holds, and the texts
\* it has got from readline() so far, in that order
ReaderOff == [l \in Labels |-> [pc |-> "off", text |-> <<>>, seen |-> <<>>]]

\* start_readers(on_output), called by start_server "if on_output:"
StartReaders(cb) ==
    [l \in Labels |-> [pc |-> IF cb THEN "read" ELSE "off",
                       text |-> <<>>, seen |-> <<>>]]

\* self.stdout_lines = [], and nothing delivered to the callback yet
NoConsole == [lines |-> <<>>, delivered |-> <<>>]

\* ServerProcess.stdout_lines of handle h
StdoutLines(h) == IF h \in Captured THEN console[h].lines ELSE <<>>

\* nothing of the launcher outside the supervisor is in use
NoResolve == [pc |-> "off"]
NoConfig == [pc |-> "off"]

\* ServerManager() with no call made yet
InitSupervisor ==
    /\ registry = [s \in ServerIds |-> NoHandle]
    /\ lock = NoThread
    /\ hd = [h \in Handles |-> Unused]
    /\ wt = [h \in Handles |-> WatcherOff]
    /\ th = [c \in Callers |-> Idle]
    /\ nSpawned = 0
    /\ streams = [h \in {} |-> NoOutput]
    /\ rd = [h \in {} |-> ReaderOff]
    /\ console = [h \in {} |-> NoConsole]

Init ==
    /\ InitSupervisor
    /\ rs = NoResolve
    /\ cm = NoConfig

\* stop_server has been called on h: an earlier call has set its flag, or a
\* stop_server or restart_server call for its id is being executed
StopCalled(h) ==
    \/ hd[h].stopReq
    \/ \E c \in Callers : /\ th[c].sid = hd[h].sid
                          /\ th[c].op \in {"stop", "restart"}
                          /\ th[c].pc \notin {"idle", "ret", "done"}

\* the state of h once its child has terminated for the given reason
Terminated(h, why) ==
    [hd[h] EXCEPT !.alive = FALSE, !.killPending = FALSE, !.exit = why,
                  !.pipe = 0, !.stdinOpen = FALSE,
                  !.unexpected = ~StopCalled(h)]

\* the child terminates on its own
ProcExit(h) ==
    /\ hd[h].alive
    /\ hd' = [hd EXCEPT ![h] = Terminated(h, "exited")]
    /\ UNCHANGED <<registry, lock, wt, th, nSpawned, capture, aside>>

\* a SIGKILL sent earlier takes effect
ProcKilled(h) ==
    /\ hd[h].alive
    /\ hd[h].killPending
    /\ hd' = [hd EXCEPT ![h] = Terminated(h, "killed")]
    /\ UNCHANGED <<registry, lock, wt, th, nSpawned, capture, aside>>

\* the child reads one line from its stdin
ProcReadStdin(h) ==
    /\ hd[h].alive
    /\ hd[h].stdinOpen
    /\ hd[h].pipe > 0
    /\ hd' = [hd EXCEPT ![h].pipe = @ - 1]
    /\ UNCHANGED <<registry, lock, wt, th, nSpawned, capture, aside>>

\* the child closes its stdin while it keeps running
ProcCloseStdin(h) ==
    /\ hd[h].alive
    /\ hd[h].stdinOpen
    /\ hd' = [hd EXCEPT ![h].stdinOpen = FALSE, ![h].pipe = 0]
    /\ UNCHANGED <<registry, lock, wt, th, nSpawned, capture, aside>>

\* Popen.kill() that does not raise: SIGKILL is queued for a running child,
\* and nothing happens for a child that has terminated
KillSent(h) ==
    [hd EXCEPT ![h].killPending = hd[h].alive,
               ![h].rawSignal = @ \/ (hd[h].alive /\ ~hd[h].stopReq)]

(* ---------------------------------------------------------------------- *)
(* Registry lock                                                           *)
(* ---------------------------------------------------------------------- *)
\* "with self._lock:" entered by caller c, continuing at pc next
Acquire(c, from, next) ==
    /\ th[c].pc = from
    /\ lock = NoThread
    /\ lock' = c
    /\ th' = [th EXCEPT ![c].pc = next]
    /\ UNCHANGED <<registry, hd, wt, nSpawned, capture, aside>>

(* ---------------------------------------------------------------------- *)
(* Callers: entry into the public methods                                  *)
(* ---------------------------------------------------------------------- *)
\* the next call is made by the first thread that has not made its call yet
\* (these threads are interchangeable)
MayCall(c) ==
    /\ th[c].pc = "idle"
    /\ \A d \in Callers : d < c => th[d].pc # "idle"

\* The arguments of a call other than the server id are drawn where the code
\* first reads them (the script path in _resolve_script, on_output at
\* start_readers, timeout at the wait loop): no step before that depends on them.

\* a thread calls start_server(sid, ...)
CallStart(c) ==
    /\ MayCall(c)
    /\ \E s \in ServerIds :
         th' = [th EXCEPT ![c] = [Idle EXCEPT !.pc = "st_acq", !.op = "start",
                                  !.sid = s]]
    /\ UNCHANGED <<registry, lock, hd, wt, nSpawned, capture, aside>>

\* a thread calls stop_server(sid, "stop", ...)
CallStop(c) ==
    /\ MayCall(c)
    /\ \E s \in ServerIds :
         th' = [th EXCEPT ![c] = [Idle EXCEPT !.pc = "stop_acq", !.op = "stop",
                                  !.sid = s]]
    /\ UNCHANGED <<registry, lock, hd, wt, nSpawned, capture, aside>>

\* restart_server's stop_server(server_id, graceful_cmd="stop", timeout=15)
RestartTimeout == GraceTicks

\* a thread calls restart_server(sid, ...)
CallRestart(c) ==
    /\ MayCall(c)
    /\ \E s \in ServerIds :
         th' = [th EXCEPT ![c] = [Idle EXCEPT !.pc = "stop_acq", !.op = "restart",
                                  !.sid = s]]
    /\ UNCHANGED <<registry, lock, hd, wt, nSpawned, capture, aside>>

\* the caller has seen the result of its call and its thread ends
Finish(c) ==
    /\ th[c].pc = "ret"
    /\ th' = [th EXCEPT ![c] = [Idle EXCEPT !.pc = "done"]]
    /\ UNCHANGED <<registry, lock, hd, wt, nSpawned, capture, aside>>

(* ---------------------------------------------------------------------- *)
(* ServerManager.stop_server                                               *)
(* ---------------------------------------------------------------------- *)
\* The field ev of a call lists what the stop_server call has done so far:
\*   get_none / get_live / get_exited   the registry lookup and what it found
\*   flag                               _stop_requested set
\*   cmd_sent / cmd_failed              send_command returned True / False
\*   poll_alive / poll_exited           a poll() of the wait loop or after it
\*   sleep                              time.sleep(0.2)
\*   kill                               process.kill() called

\* "return r" of stop_server after a last event e: back to the caller, or on
\* into restart_server, which keeps only the result
StopReturn(c, r, e) ==
    IF th[c].op = "restart"
    THEN [th[c] EXCEPT !.stopRes = r, !.sp = NoHandle, !.elapsed = 0,
                       !.timeout = 0, !.ev = <<>>,
                       !.pc = IF r = "true" THEN "rs_del_acq" ELSE "rs_acq"]
    ELSE [th[c] EXCEPT !.stopRes = r, !.ret = r, !.pc = "ret",
                       !.ev = Append(@, e)]

\* the timeout argument of the call: restart_server passes 15 s, other callers
\* pass zero or a grace period
TimeoutArgs(c) == IF th[c].op = "restart" THEN {RestartTimeout} ELSE Timeouts

\* "start = time.time()" after send_command returned with outcome e
EnterWait(c, e) ==
    {[th[c] EXCEPT !.pc = "stop_loop", !.elapsed = 0, !.timeout = t,
                   !.ev = Append(@, e)] : t \in TimeoutArgs(c)}

\* the loop condition written with "<=": a zero timeout would sleep once
WithinGrace_Inclusive(elapsed, timeout) == elapsed <= timeout

\* the loop condition "(time.time() - start) < timeout"
WithinGrace(elapsed, timeout) == elapsed < timeout

\* with self._lock: (entered)
StopAcquire(c) == Acquire(c, "stop_acq", "stop_get")

\* stop_server's lookup with "if not sp: return False"
StopGet_UnknownFails(c) ==
    /\ th[c].pc = "stop_get"
    /\ lock' = NoThread
    /\ LET h == registry[th[c].sid] IN
         IF h = NoHandle
         THEN th' = [th EXCEPT ![c] = StopReturn(c, "false", "get_none")]
         ELSE th' = [th EXCEPT ![c].sp = h, ![c].pc = "stop_flag",
                               ![c].ev = Append(@, IF PollIsNone(h)
                                                   THEN "get_live" ELSE "get_exited")]
    /\ UNCHANGED <<registry, hd, wt, nSpawned, capture, aside>>

\* sp = self._processes.get(server_id); lock released; "if not sp: return True"
StopGet(c) ==
    /\ th[c].pc = "stop_get"
    /\ lock' = NoThread
    /\ LET h == registry[th[c].sid] IN
         IF h = NoHandle
         THEN th' = [th EXCEPT ![c] = StopReturn(c, "true", "get_none")]
         ELSE th' = [th EXCEPT ![c].sp = h, ![c].pc = "stop_flag",
                               ![c].ev = Append(@, IF PollIsNone(h)
                                                   THEN "get_live" ELSE "get_exited")]
    /\ UNCHANGED <<registry, hd, wt, nSpawned, capture, aside>>

\* sp._stop_requested = not sp._stop_requested
StopFlag_Toggles(c) ==
    /\ th[c].pc = "stop_flag"
    /\ hd' = [hd EXCEPT ![th[c].sp].stopReq = ~@]
    /\ th' = [th EXCEPT ![c].pc = "stop_send", ![c].ev = Append(@, "flag")]
    /\ UNCHANGED <<registry, lock, wt, nSpawned, capture, aside>>

\* sp._stop_requested = True
StopFlag(c) ==
    /\ th[c].pc = "stop_flag"
    /\ hd' = [hd EXCEPT ![th[c].sp].stopReq = TRUE]
    /\ th' = [th EXCEPT ![c].pc = "stop_send", ![c].ev = Append(@, "flag")]
    /\ UNCHANGED <<registry, lock, wt, nSpawned, capture, aside>>

\* sp.send_command(graceful_cmd): "if self.process.stdin and poll() is None"
StopSend(c) ==
    /\ th[c].pc = "stop_send"
    /\ IF PollIsNone(th[c].sp)
       THEN th' = [th EXCEPT ![c].pc = "stop_write"]
       ELSE \E r \in EnterWait(c, "cmd_failed") : th' = [th EXCEPT ![c] = r]
    /\ UNCHANGED <<registry, lock, hd, wt, nSpawned, capture, aside>>

\* stdin.write(cmd + "\n") and flush: the line enters the pipe, or the write
\* fails (child gone or stdin closed) and send_command returns False, or the
\* write blocks while the pipe is full
StopWrite(c) ==
    /\ th[c].pc = "stop_write"
    /\ LET h == th[c].sp IN
         IF hd[h].alive /\ hd[h].stdinOpen
         THEN /\ hd[h].pipe < PipeCap
              /\ hd' = [hd EXCEPT ![h].pipe = @ + 1,
                                  ![h].rawSignal = @ \/ ~hd[h].stopReq]
              /\ \E r \in EnterWait(c, "cmd_sent") : th' = [th EXCEPT ![c] = r]
         ELSE /\ hd' = hd
              /\ \E r \in EnterWait(c, "cmd_failed") : th' = [th EXCEPT ![c] = r]
    /\ UNCHANGED <<registry, lock, wt, nSpawned, capture, aside>>

\* while sp.process.poll() is None and (time.time() - start) < timeout:
StopLoop(c) ==
    /\ th[c].pc = "stop_loop"
    /\ IF PollIsNone(th[c].sp)
       THEN IF WithinGrace(th[c].elapsed, th[c].timeout)
            THEN th' = [th EXCEPT ![c].pc = "stop_sleep",
                                  ![c].ev = Append(@, "poll_alive")]
            ELSE th' = [th EXCEPT ![c].pc = "stop_chk",
                                  ![c].ev = Append(@, "poll_alive")]
       ELSE th' = [th EXCEPT ![c].pc = "stop_chk",
                             ![c].ev = Append(@, "poll_exited")]
    /\ UNCHANGED <<registry, lock, hd, wt, nSpawned, capture, aside>>

\* time.sleep(0.2): at least one tick of the grace period passes
StopSleep(c) ==
    /\ th[c].pc = "stop_sleep"
    /\ \E d \in 1..(IF th[c].timeout - th[c].elapsed > 1
                   THEN th[c].timeout - th[c].elapsed ELSE 1) :
         th' = [th EXCEPT ![c].pc = "stop_loop", ![c].elapsed = @ + d,
                          ![c].ev = Append(@, "sleep")]
    /\ UNCHANGED <<registry, lock, hd, wt, nSpawned, capture, aside>>

\* stop_server without the "if sp.process.poll() is None:" before the kill
StopCheck_AlwaysKill(c) ==
    /\ th[c].pc = "stop_chk"
    /\ th' = [th EXCEPT ![c].pc = "stop_kill"]
    /\ UNCHANGED <<registry, lock, hd, wt, nSpawned, capture, aside>>

\* if sp.process.poll() is None: (force kill) else: return True
StopCheck(c) ==
    /\ th[c].pc = "stop_chk"
    /\ IF PollIsNone(th[c].sp)
       THEN th' = [th EXCEPT ![c].pc = "stop_kill",
                             ![c].ev = Append(@, "poll_alive")]
       ELSE th' = [th EXCEPT ![c] = StopReturn(c, "true", "poll_exited")]
    /\ UNCHANGED <<registry, lock, hd, wt, nSpawned, capture, aside>>

\* sp.process.kill() inside try/except: the signal is sent, or kill raises
StopKill(c) ==
    /\ th[c].pc = "stop_kill"
    /\ \E raises \in BOOLEAN :
         /\ hd' = IF raises THEN hd ELSE KillSent(th[c].sp)
         /\ th' = [th EXCEPT ![c].pc = "stop_ret",
                     ![c].ev = Append(@, "kill")]
    /\ UNCHANGED <<registry, lock, wt, nSpawned, capture, aside>>

\* stop_server ending in "return True" after the kill
StopResult_AlwaysTrue(c) ==
    /\ th[c].pc = "stop_ret"
    /\ th' = [th EXCEPT ![c] = StopReturn(c, "true", "poll_exited")]
    /\ UNCHANGED <<registry, lock, hd, wt, nSpawned, capture, aside>>

\* return sp.process.poll() is not None
StopResult(c) ==
    /\ th[c].pc = "stop_ret"
    /\ th' = [th EXCEPT ![c] =
                IF PollIsNone(th[c].sp)
                THEN StopReturn(c, "false", "poll_alive")
                ELSE StopReturn(c, "true", "poll_exited")]
    /\ UNCHANGED <<registry, lock, hd, wt, nSpawned, capture, aside>>

(* ---------------------------------------------------------------------- *)
(* ServerManager.restart_server (after its stop_server call returned)      *)
(* ---------------------------------------------------------------------- *)
\* if not stopped: ... with self._lock: (entered)
RestartAcquire(c) == Acquire(c, "rs_acq", "rs_get")

\* sp = self._processes.get(server_id); lock released
RestartGet(c) ==
    /\ th[c].pc = "rs_get"
    /\ lock' = NoThread
    /\ th' = [th EXCEPT ![c].sp = registry[th[c].sid], ![c].pc = "rs_poll"]
    /\ UNCHANGED <<registry, hd, wt, nSpawned, capture, aside>>

\* if sp and sp.process.poll() is None:
RestartPoll(c) ==
    /\ th[c].pc = "rs_poll"
    /\ th' = [th EXCEPT ![c].pc =
                IF th[c].sp # NoHandle /\ PollIsNone(th[c].sp)
                THEN "rs_kill" ELSE "rs_del_acq",
                         ![c].sp = IF th[c].sp # NoHandle /\ PollIsNone(th[c].sp)
                                   THEN th[c].sp ELSE NoHandle]
    /\ UNCHANGED <<registry, lock, hd, wt, nSpawned, capture, aside>>

\* sp.process.kill() inside try/except
RestartKill(c) ==
    /\ th[c].pc = "rs_kill"
    /\ \E raises \in BOOLEAN :
         hd' = IF raises THEN hd ELSE KillSent(th[c].sp)
    /\ th' = [th EXCEPT ![c].pc = "rs_del_acq", ![c].sp = NoHandle]
    /\ UNCHANGED <<registry, lock, wt, nSpawned, capture, aside>>

\* with self._lock: (entered)
RestartDelAcquire(c) == Acquire(c, "rs_del_acq", "rs_del")

\* if server_id in self._processes: del self._processes[server_id]
RestartDelete(c) ==
    /\ th[c].pc = "rs_del"
    /\ lock' = NoThread
    /\ registry' = [registry EXCEPT ![th[c].sid] = NoHandle]
    /\ th' = [th EXCEPT ![c].pc = "st_acq"]
    /\ UNCHANGED <<hd, wt, nSpawned, capture, aside>>

(* ---------------------------------------------------------------------- *)
(* ServerManager.start_server                                              *)
(* ---------------------------------------------------------------------- *)
\* the duplicate check with the poll() test inverted
AlreadyRunning_Inverted(s) == registry[s] # NoHandle /\ ~PollIsNone(registry[s])

\* "server_id in self._processes and self._processes[server_id].process.poll() is None"
AlreadyRunning(s) == registry[s] # NoHandle /\ PollIsNone(registry[s])

\* with self._lock: (entered)
StartAcquire(c) == Acquire(c, "st_acq", "st_check")

\* start_server removing a stale entry of the id when the script is missing
StartCheck_DropsEntry(c) ==
    /\ th[c].pc = "st_check"
    /\ lock' = NoThread
    /\ \E scriptOk \in BOOLEAN :
         /\ th' = [th EXCEPT ![c] =
                     IF AlreadyRunning(th[c].sid)
                     THEN [@ EXCEPT !.pc = "ret", !.ret = "none", !.dup = TRUE]
                     ELSE IF ~scriptOk
                          THEN [@ EXCEPT !.pc = "ret", !.ret = "FileNotFoundError"]
                          ELSE [@ EXCEPT !.pc = "st_spawn"]]
         /\ registry' = IF ~AlreadyRunning(th[c].sid) /\ ~scriptOk
                        THEN [registry EXCEPT ![th[c].sid] = NoHandle]
                        ELSE registry
    /\ UNCHANGED <<hd, wt, nSpawned, capture, aside>>

\* the duplicate check under the lock, then _resolve_script outside it
StartCheck(c) ==
    /\ th[c].pc = "st_check"
    /\ lock' = NoThread
    /\ \E scriptOk \in BOOLEAN :
         th' = [th EXCEPT ![c] =
                  IF AlreadyRunning(th[c].sid)
                  THEN [@ EXCEPT !.pc = "ret", !.ret = "none", !.dup = TRUE]
                  ELSE IF ~scriptOk
                       THEN [@ EXCEPT !.pc = "ret", !.ret = "FileNotFoundError"]
                       ELSE [@ EXCEPT !.pc = "st_spawn"]]
    /\ UNCHANGED <<registry, hd, wt, nSpawned, capture, aside>>

\* whether the on_output argument of a start is a callback: the callers of one
\* run pass the same argument to every start (main.py passes _on_output to each
\* of them, a caller relying on the default passes None to each)
OutputArgs == IF nSpawned = 0 THEN BOOLEAN ELSE {hd[1].hasCb}

\* popen = subprocess.Popen(...); sp = ServerProcess(...);
\* if on_output: sp.start_readers(on_output).  Popen raises OSError once the
\* system has no room for another child.
StartSpawn(c) ==
    /\ th[c].pc = "st_spawn"
    /\ IF nSpawned < MaxSpawns
       THEN \E cb \in OutputArgs :
              LET h == nSpawned + 1 IN
                /\ hd' = [hd EXCEPT ![h] = NewHandle(th[c].sid, cb)]
                /\ rd' = IF h \in Captured
                         THEN [rd EXCEPT ![h] = StartReaders(cb)] ELSE rd
                /\ th' = [th EXCEPT ![c].mine = h, ![c].cb = cb,
                                    ![c].pc = "st_reg_acq"]
                /\ nSpawned' = nSpawned + 1
       ELSE /\ th' = [th EXCEPT ![c].pc = "ret", ![c].ret = "OSError"]
            /\ UNCHANGED <<hd, nSpawned, rd>>
    /\ UNCHANGED <<registry, lock, wt, streams, console, aside>>

\* with self._lock: (entered)
StartRegAcquire(c) == Acquire(c, "st_reg_acq", "st_reg")

\* self._processes[server_id] = sp; lock released
StartRegister(c) ==
    /\ th[c].pc = "st_reg"
    /\ lock' = NoThread
    /\ registry' = [registry EXCEPT ![th[c].sid] = th[c].mine]
    /\ th' = [th EXCEPT ![c].pc = "st_watch"]
    /\ UNCHANGED <<hd, wt, nSpawned, capture, aside>>

\* watcher = threading.Thread(target=self._watch_process, ...); watcher.start()
StartWatcher(c) ==
    /\ th[c].pc = "st_watch"
    /\ wt' = [wt EXCEPT ![th[c].mine] =
                [pc |-> "w_acq", sp |-> NoHandle, cb |-> th[c].cb, rc |-> 0,
                 sid |-> th[c].sid]]
    /\ th' = [th EXCEPT ![c].pc = "ret", ![c].ret = "none"]
    /\ UNCHANGED <<registry, lock, hd, nSpawned, capture, aside>>

(* ---------------------------------------------------------------------- *)
(* ServerManager._watch_process, the watcher thread of one start           *)
(* ---------------------------------------------------------------------- *)
\* with self._lock: (entered)
WatchAcquire(w) ==
    /\ wt[w].pc = "w_acq"
    /\ lock = NoThread
    /\ lock' = WatcherTid(w)
    /\ wt' = [wt EXCEPT ![w].pc = "w_get"]
    /\ UNCHANGED <<registry, hd, th, nSpawned, capture, aside>>

\* sp = self._processes.get(server_id); lock released; "if not sp: return"
WatchGet(w) ==
    /\ wt[w].pc = "w_get"
    /\ lock' = NoThread
    /\ LET h == registry[wt[w].sid] IN
         wt' = [wt EXCEPT ![w].sp = h,
                          ![w].pc = IF h = NoHandle THEN "w_done" ELSE "w_wait"]
    /\ UNCHANGED <<registry, hd, th, nSpawned, capture, aside>>

\* return_code = proc.wait(): returns once the child has terminated
WatchWait(w) ==
    /\ wt[w].pc = "w_wait"
    /\ ~hd[wt[w].sp].alive
    /\ wt' = [wt EXCEPT ![w].rc = ReturnCode(wt[w].sp), ![w].pc = "w_flag"]
    /\ UNCHANGED <<registry, lock, hd, th, nSpawned, capture, aside>>

\* if not getattr(sp, "_stop_requested", False):
WatchFlag(w) ==
    /\ wt[w].pc = "w_flag"
    /\ wt' = [wt EXCEPT ![w].pc =
                IF hd[wt[w].sp].stopReq THEN "w_done" ELSE "w_report"]
    /\ UNCHANGED <<registry, lock, hd, th, nSpawned, capture, aside>>

\* the display name the callers pass for a server id (main.py passes the name
\* of the id's configuration record), as a sequence of characters
DisplayName(s) == <<"m", "y", " ", "s", "1">>

\* logname = f"{sp.name}-latest.log".replace(" ", "_")
LogName(name) ==
    [i \in 1..Len(name) |-> IF name[i] = " " THEN "_" ELSE name[i]]
      \o <<"-", "l", "a", "t", "e", "s", "t", ".", "l", "o", "g">>

\* the unexpected-exit branch: if on_output: on_output(server_id,
\* f"[PROCESS EXITED] Return code {return_code}"), then the crash log
\* with open(logname, "w") as fh: fh.write(sp.collect_console())
WatchReport(w) ==
    /\ wt[w].pc = "w_report"
    /\ hd' = [hd EXCEPT ![wt[w].sp] =
                [@ EXCEPT !.markers = IF wt[w].cb THEN @ + 1 ELSE @,
                          !.markerRc = IF wt[w].cb THEN wt[w].rc ELSE @,
                          !.logs = @ + 1]]
    /\ wt' = [wt EXCEPT ![w].pc = "w_done"]
    /\ UNCHANGED <<registry, lock, th, nSpawned, capture, aside>>

(* ---------------------------------------------------------------------- *)
(* ServerManager.send_command and ServerProcess.send_command               *)
(* ---------------------------------------------------------------------- *)
\* The field ev of a send_command call lists what the call has done so far:
\*   get_none / get_live / get_exited   the registry lookup and what it found
\*   poll_alive / poll_exited           the poll() of ServerProcess.send_command
\*   cmd_sent                           a stdin.write put the line into the pipe
\*   write_raised                       a stdin.write raised

\* a thread calls send_command(sid, cmd)
CallSend(c) ==
    /\ MayCall(c)
    /\ \E s \in ServerIds :
         th' = [th EXCEPT ![c] = [Idle EXCEPT !.pc = "sc_acq", !.op = "send",
                                  !.sid = s]]
    /\ UNCHANGED <<registry, lock, hd, wt, nSpawned, capture, aside>>

\* with self._lock: (entered)
SendAcquire(c) == Acquire(c, "sc_acq", "sc_get")

\* sp = self._processes.get(server_id); lock released; "if not sp: return False"
SendGet_KeepsLock(c) ==
    /\ th[c].pc = "sc_get"
    /\ lock' = (IF registry[th[c].sid] = NoHandle THEN NoThread ELSE c)
    /\ LET h == registry[th[c].sid] IN
         IF h = NoHandle
         THEN th' = [th EXCEPT ![c].pc = "ret", ![c].ret = "false",
                               ![c].ev = Append(@, "get_none")]
         ELSE th' = [th EXCEPT ![c].sp = h, ![c].pc = "sc_poll",
                               ![c].ev = Append(@, IF PollIsNone(h)
                                                   THEN "get_live" ELSE "get_exited")]
    /\ UNCHANGED <<registry, hd, wt, nSpawned, capture, aside>>

SendGet(c) ==
    /\ th[c].pc = "sc_get"
    /\ lock' = NoThread
    /\ LET h == registry[th[c].sid] IN
         IF h = NoHandle
         THEN th' = [th EXCEPT ![c].pc = "ret", ![c].ret = "false",
                               ![c].ev = Append(@, "get_none")]
         ELSE th' = [th EXCEPT ![c].sp = h, ![c].pc = "sc_poll",
                               ![c].ev = Append(@, IF PollIsNone(h)
                                                   THEN "get_live" ELSE "get_exited")]
    /\ UNCHANGED <<registry, hd, wt, nSpawned, capture, aside>>

\* if self.process.stdin and self.process.poll() is None: ... else: return False
SendPoll(c) ==
    /\ th[c].pc = "sc_poll"
    /\ IF PollIsNone(th[c].sp)
       THEN th' = [th EXCEPT ![c].pc = "sc_write",
                             ![c].ev = Append(@, "poll_alive")]
       ELSE th' = [th EXCEPT ![c].pc = "ret", ![c].ret = "false",
                             ![c].ev = Append(@, "poll_exited")]
    /\ UNCHANGED <<registry, lock, hd, wt, nSpawned, capture, aside>>

\* One stdin.write(cmd + "\n") by caller c.  stdin is the text stream Popen
\* makes for bufsize=1, universal_newlines=True: write-through and line
\* buffered, so the write itself pushes the line into the pipe and raises if
\* the pipe is broken (child gone or stdin closed); it blocks while the pipe is
\* full.  The stdin.flush() that follows a write that did not raise finds
\* nothing left to push, and "return True" is reached.
\* onRaise is the state of the call after a write that raised.
WriteLine(c, onRaise) ==
    LET h == th[c].sp IN
      IF hd[h].alive /\ hd[h].stdinOpen
      THEN /\ hd[h].pipe < PipeCap
           /\ hd' = [hd EXCEPT ![h].pipe = @ + 1]
           /\ th' = [th EXCEPT ![c].pc = "ret", ![c].ret = "true",
                               ![c].ev = Append(@, "cmd_sent")]
      ELSE /\ hd' = hd
           /\ th' = [th EXCEPT ![c] = onRaise]

\* the first write, "except Exception:" leading to the fallback write
SendWrite(c) ==
    /\ th[c].pc = "sc_write"
    /\ WriteLine(c, [th[c] EXCEPT !.pc = "sc_fallback",
                                  !.ev = Append(@, "write_raised")])
    /\ UNCHANGED <<registry, lock, wt, nSpawned, capture, aside>>

\* the fallback write with "except Exception: return True"
SendFallback_IgnoresFailure(c) ==
    /\ th[c].pc = "sc_fallback"
    /\ WriteLine(c, [th[c] EXCEPT !.pc = "ret", !.ret = "true",
                                  !.ev = Append(@, "write_raised")])
    /\ UNCHANGED <<registry, lock, wt, nSpawned, capture, aside>>

\* the fallback write, "except Exception: ... return False"
SendFallback(c) ==
    /\ th[c].pc = "sc_fallback"
    /\ WriteLine(c, [th[c] EXCEPT !.pc = "ret", !.ret = "false",
                                  !.ev = Append(@, "write_raised")])
    /\ UNCHANGED <<registry, lock, wt, nSpawned, capture, aside>>

SendStep(c) ==
    \/ SendAcquire(c) \/ SendGet(c) \/ SendPoll(c) \/ SendWrite(c)
    \/ SendFallback(c)

(* ---------------------------------------------------------------------- *)
(* ServerManager.is_running and ServerManager.get_console                  *)
(* ---------------------------------------------------------------------- *)
\* a thread calls is_running(sid)
CallIsRunning(c) ==
    /\ MayCall(c)
    /\ \E s \in ServerIds :
         th' = [th EXCEPT ![c] = [Idle EXCEPT !.pc = "ir_acq", !.op = "running",
                                  !.sid = s]]
    /\ UNCHANGED <<registry, lock, hd, wt, nSpawned, capture, aside>>

\* with self._lock: (entered)
RunningAcquire(c) == Acquire(c, "ir_acq", "ir_get")

\* sp = self._processes.get(server_id); lock released; "sp is not None and"
RunningGet(c) ==
    /\ th[c].pc = "ir_get"
    /\ lock' = NoThread
    /\ LET h == registry[th[c].sid] IN
         IF h = NoHandle
         THEN th' = [th EXCEPT ![c].pc = "ret", ![c].ret = "false"]
         ELSE th' = [th EXCEPT ![c].sp = h, ![c].pc = "ir_poll"]
    /\ UNCHANGED <<registry, hd, wt, nSpawned, capture, aside>>

\* return ... sp.process.poll() is None
RunningPoll(c) ==
    /\ th[c].pc = "ir_poll"
    /\ th' = [th EXCEPT ![c].pc = "ret",
                        ![c].ret = IF PollIsNone(th[c].sp) THEN "true" ELSE "false"]
    /\ UNCHANGED <<registry, lock, hd, wt, nSpawned, capture, aside>>

\* a thread calls get_console(sid)
CallConsole(c) ==
    /\ MayCall(c)
    /\ \E s \in ServerIds :
         th' = [th EXCEPT ![c] = [Idle EXCEPT !.pc = "gc_acq", !.op = "console",
                                  !.sid = s]]
    /\ UNCHANGED <<registry, lock, hd, wt, nSpawned, capture, aside>>

\* with self._lock: (entered)
ConsoleAcquire(c) == Acquire(c, "gc_acq", "gc_get")

\* sp = self._processes.get(server_id); lock released; "if not sp: return None"
ConsoleGet(c) ==
    /\ th[c].pc = "gc_get"
    /\ lock' = NoThread
    /\ LET h == registry[th[c].sid] IN
         IF h = NoHandle
         THEN th' = [th EXCEPT ![c].pc = "ret", ![c].ret = "None"]
         ELSE th' = [th EXCEPT ![c].sp = h, ![c].pc = "gc_collect"]
    /\ UNCHANGED <<registry, hd, wt, nSpawned, capture, aside>>

\* "\n".join(lines)
RECURSIVE JoinLines(_)
JoinLines(lines) ==
    IF Len(lines) = 0 THEN <<>>
    ELSE IF Len(lines) = 1 THEN lines[1]
         ELSE lines[1] \o <<"\n">> \o JoinLines(Tail(lines))

\* collect_console(): with self._lock: return "\n".join(self.stdout_lines)
ConsoleCollect(c) ==
    /\ th[c].pc = "gc_collect"
    /\ th' = [th EXCEPT ![c].pc = "ret", ![c].ret = "text",
                        ![c].out = JoinLines(StdoutLines(th[c].sp))]
    /\ UNCHANGED <<registry, lock, hd, wt, nSpawned, capture, aside>>

QueryStep(c) ==
    \/ RunningAcquire(c) \/ RunningGet(c) \/ RunningPoll(c)
    \/ ConsoleAcquire(c) \/ ConsoleGet(c) \/ ConsoleCollect(c)

(* ---------------------------------------------------------------------- *)
(* Output capture: ServerProcess.start_readers._reader and the child's     *)
(* stdout and stderr                                                       *)
(* ---------------------------------------------------------------------- *)
\* the child writes its next line to its stream l
ProcWriteLine(h, l) ==
    /\ hd[h].alive
    /\ streams[h][l].written < MaxLines
    /\ streams' = [streams EXCEPT
                     ![h][l].written = @ + 1,
                     ![h][l].pipe = Append(@, RawLine(l, streams[h][l].written + 1))]
    /\ UNCHANGED <<registry, lock, hd, wt, th, nSpawned, rd, console, aside>>

\* line.rstrip("\n")
RECURSIVE Rstrip(_)
Rstrip(line) ==
    IF Len(line) > 0 /\ line[Len(line)] = "\n"
    THEN Rstrip(SubSeq(line, 1, Len(line) - 1))
    ELSE line

\* "for line in iter(stream.readline, ''):" and text = line.rstrip("\n").
\* readline() returns the next line of the pipe, or raises on it (a line that
\* does not decode), or returns "" at end of stream (pipe empty, child gone),
\* and then stream.close() ends the thread; it blocks while the pipe is empty
\* and the child runs.
ReaderRead(h, l) ==
    /\ rd[h][l].pc = "read"
    /\ IF Len(streams[h][l].pipe) > 0
       THEN /\ streams' = [streams EXCEPT ![h][l].pipe = Tail(@)]
            /\ \E raises \in BOOLEAN :
                 rd' = [rd EXCEPT ![h][l] =
                          IF raises
                          THEN [@ EXCEPT !.pc = "failed"]
                          ELSE [@ EXCEPT !.pc = "append",
                                         !.text = Rstrip(Head(streams[h][l].pipe)),
                                         !.seen = Append(@,
                                             Rstrip(Head(streams[h][l].pipe)))]]
       ELSE /\ ~hd[h].alive
            /\ rd' = [rd EXCEPT ![h][l].pc = "done"]
            /\ UNCHANGED streams
    /\ UNCHANGED <<registry, lock, hd, wt, th, nSpawned, console, aside>>

\* stdout_lines.insert(0, text) in the place of append
ReaderAppend_Front(h, l) ==
    /\ rd[h][l].pc = "append"
    /\ console' = [console EXCEPT ![h].lines = <<rd[h][l].text>> \o @]
    /\ rd' = [rd EXCEPT ![h][l].pc = "deliver"]
    /\ UNCHANGED <<registry, lock, hd, wt, th, nSpawned, streams, aside>>

\* with self._lock: self.stdout_lines.append(text)
ReaderAppend(h, l) ==
    /\ rd[h][l].pc = "append"
    /\ console' = [console EXCEPT ![h].lines = Append(@, rd[h][l].text)]
    /\ rd' = [rd EXCEPT ![h][l].pc = "deliver"]
    /\ UNCHANGED <<registry, lock, hd, wt, th, nSpawned, streams, aside>>

\* an exception of the callback that ends both reader threads of the handle
ReaderDeliver_StopsBoth(h, l) ==
    /\ rd[h][l].pc = "deliver"
    /\ \E raises \in BOOLEAN :
         IF raises
         THEN /\ rd' = [rd EXCEPT ![h] = [m \in Labels |->
                                            [rd[h][m] EXCEPT !.pc = "failed",
                                                             !.text = <<>>]]]
              /\ UNCHANGED console
         ELSE /\ rd' = [rd EXCEPT ![h][l].pc = "read", ![h][l].text = <<>>]
              /\ console' = [console EXCEPT ![h].delivered = Append(@, rd[h][l].text)]
    /\ UNCHANGED <<registry, lock, hd, wt, th, nSpawned, streams, aside>>

\* on_output(self.server_id, text): the callback receives the line, or raises
\* and "except Exception" ends the thread
ReaderDeliver(h, l) ==
    /\ rd[h][l].pc = "deliver"
    /\ \E raises \in BOOLEAN :
         IF raises
         THEN /\ rd' = [rd EXCEPT ![h][l].pc = "failed", ![h][l].text = <<>>]
              /\ UNCHANGED console
         ELSE /\ rd' = [rd EXCEPT ![h][l].pc = "read", ![h][l].text = <<>>]
              /\ console' = [console EXCEPT ![h].delivered = Append(@, rd[h][l].text)]
    /\ UNCHANGED <<registry, lock, hd, wt, th, nSpawned, streams, aside>>

ReaderStep(h, l) == ReaderRead(h, l) \/ ReaderAppend(h, l) \/ ReaderDeliver(h, l)

(* ---------------------------------------------------------------------- *)
(* Specification                                                           *)
(* ---------------------------------------------------------------------- *)
CallerStep(c) ==
    \/ StopAcquire(c) \/ StopGet(c) \/ StopFlag(c) \/ StopSend(c)
    \/ StopWrite(c) \/ StopLoop(c) \/ StopSleep(c) \/ StopCheck(c)
    \/ StopKill(c) \/ StopResult(c)
    \/ RestartAcquire(c) \/ RestartGet(c) \/ RestartPoll(c) \/ RestartKill(c)
    \/ RestartDelAcquire(c) \/ RestartDelete(c)
    \/ StartAcquire(c) \/ StartCheck(c) \/ StartSpawn(c)
    \/ StartRegAcquire(c) \/ StartRegister(c) \/ StartWatcher(c)

WatcherStep(w) ==
    \/ WatchAcquire(w) \/ WatchGet(w) \/ WatchWait(w) \/ WatchFlag(w)
    \/ WatchReport(w)

ChildStep(h) ==
    \/ ProcExit(h) \/ ProcKilled(h) \/ ProcReadStdin(h) \/ ProcCloseStdin(h)

Next ==
    \/ \E c \in Callers : CallStart(c) \/ CallStop(c) \/ CallRestart(c) \/ Finish(c)
    \/ \E c \in Callers : CallerStep(c)
    \/ \E w \in Handles : WatcherStep(w)
    \/ \E h \in Handles : ChildStep(h)

Spec == Init /\ [][Next]_vars

\* the state in which one start_server call has completed and returned: the
\* child runs, its handle is registered and its watcher thread has looked the
\* handle up and waits for the child to terminate
RunningOne(followed) ==
    /\ \E s \in ServerIds, cb \in BOOLEAN :
         /\ registry = [t \in ServerIds |-> IF t = s THEN 1 ELSE NoHandle]
         /\ hd = [h \in Handles |-> IF h = 1 THEN NewHandle(s, cb) ELSE Unused]
         /\ wt = [h \in Handles |->
                    IF h = 1 THEN [pc |-> "w_wait", sp |-> 1, cb |-> cb,
                                   rc |-> 0, sid |-> s]
                    ELSE WatcherOff]
         /\ rd = [h \in followed |-> IF h = 1 THEN StartReaders(cb) ELSE ReaderOff]
    /\ lock = NoThread
    /\ th = [c \in Callers |-> Idle]
    /\ nSpawned = 1
    /\ streams = [h \in followed |-> NoOutput]
    /\ console = [h \in followed |-> NoConsole]
    /\ rs = NoResolve
    /\ cm = NoConfig

InitRunning == RunningOne({})

\* the same, with the output capture of that server followed
InitCapture == RunningOne({1})

\* the supervisor with one server already started
SpecRunning == InitRunning /\ [][Next]_vars

\* Scheduling: a thread that can take its next step eventually takes it (the
\* interpreter switches threads at a fixed interval), and a child that was sent
\* SIGKILL terminates.  Nothing else is assumed of the children, nor of when
\* the callers make a call.
Fairness ==
    /\ \A c \in Callers : WF_vars(CallerStep(c))
    /\ \A w \in Handles : WF_vars(WatcherStep(w))
    /\ \A h \in Handles : WF_vars(ProcKilled(h))

SpecRunningFair == InitRunning /\ [][Next]_vars /\ Fairness

\* the supervisor with its whole interface in use: the calls of Next,
\* send_command, is_running and get_console, on a supervisor that has one
\* server running
NextApi ==
    \/ Next
    \/ \E c \in Callers : CallSend(c) \/ CallIsRunning(c) \/ CallConsole(c)
    \/ \E c \in Callers : SendStep(c)
    \/ \E c \in Callers : QueryStep(c)

SpecApi == InitRunning /\ [][NextApi]_vars

\* output capture of a running server: its child writes lines and terminates,
\* its two readers drain the streams, its watcher reports the exit
NextReaders ==
    \/ \E h \in Handles : ProcExit(h)
    \/ \E h \in {1}, l \in Labels : ProcWriteLine(h, l)
    \/ \E h \in {1}, l \in Labels : ReaderStep(h, l)
    \/ \E w \in Handles : WatchWait(w) \/ WatchFlag(w) \/ WatchReport(w)

SpecReaders == InitCapture /\ [][NextReaders]_vars

\* output capture with the console read while it goes on: the steps of
\* NextReaders and a get_console call of one thread
NextCapture ==
    \/ NextReaders
    \/ \E c \in {1} : CallConsole(c) \/ Finish(c)
    \/ \E c \in {1} : ConsoleAcquire(c) \/ ConsoleGet(c) \/ ConsoleCollect(c)

\* every reader thread and every watcher thread that can take a step is
\* scheduled at some time
FairCapture ==
    /\ \A l \in Labels : WF_vars(ReaderStep(1, l))
    /\ \A w \in Handles : WF_vars(WatchWait(w) \/ WatchFlag(w) \/ WatchReport(w))

SpecCapture == InitCapture /\ [][NextCapture]_vars /\ FairCapture

(* ---------------------------------------------------------------------- *)
(* ServerManager._resolve_script                                           *)
(* ---------------------------------------------------------------------- *)
\* A path is the pathlib Path of the argument, written as the parts of its
\* file name between the dots: <<"run", "sh">> is run.sh, <<"run">> is run.
ScriptPaths == {<<"run", "sh">>, <<"run", "bat">>, <<"run", "cmd">>, <<"run">>}

\* values of platform.system(), as sequences of characters
Platforms == {<<"W", "i", "n", "d", "o", "w", "s">>,
              <<"L", "i", "n", "u", "x">>,
              <<"D", "a", "r", "w", "i", "n">>}

\* str.lower() on the characters that occur in the platform names
LowerChar(ch) ==
    CASE ch = "W" -> "w" [] ch = "L" -> "l" [] ch = "D" -> "d" [] OTHER -> ch
Lower(str) == [i \in 1..Len(str) |-> LowerChar(str[i])]

\* str.startswith(prefix)
StartsWith(str, prefix) ==
    Len(str) >= Len(prefix) /\ SubSeq(str, 1, Len(prefix)) = prefix

\* plat = platform.system().lower(); plat.startswith("win")
IsWin(platform) == StartsWith(Lower(platform), <<"w", "i", "n">>)

\* Path.suffix: the last part of the name after a dot, "" if there is none
Suffix(path) == IF Len(path) >= 2 THEN path[Len(path)] ELSE ""

\* Path.with_suffix(ext): the suffix replaced, or ext added if there is none
WithSuffix(path, ext) ==
    IF Len(path) >= 2 THEN SubSeq(path, 1, Len(path) - 1) \o <<ext>>
    ELSE path \o <<ext>>

\* "raise FileNotFoundError(...)" and "return p"
NotFound == [ok |-> FALSE, path |-> <<>>]
Found(path) == [ok |-> TRUE, path |-> path]

\* _resolve_script trying the other extension whatever the platform is
ResolveScript_AnyPlatform(path, files, platform) ==
    IF path \in files THEN Found(path)
    ELSE IF Suffix(path) = "sh" /\ WithSuffix(path, "bat") \in files
         THEN Found(WithSuffix(path, "bat"))
         ELSE IF Suffix(path) = "bat" /\ WithSuffix(path, "sh") \in files
              THEN Found(WithSuffix(path, "sh"))
              ELSE NotFound

\* _resolve_script(path) on a host with the given files and platform
ResolveScript(path, files, platform) ==
    IF path \in files THEN Found(path)
    ELSE IF IsWin(platform) /\ Suffix(path) = "sh"
            /\ WithSuffix(path, "bat") \in files
         THEN Found(WithSuffix(path, "bat"))
         ELSE IF ~IsWin(platform) /\ Suffix(path) = "bat"
                 /\ WithSuffix(path, "sh") \in files
              THEN Found(WithSuffix(path, "sh"))
              ELSE NotFound

\* a call _resolve_script(path) about to be made on some host
InitResolve ==
    /\ InitSupervisor
    /\ cm = NoConfig
    /\ \E p \in ScriptPaths, f \in SUBSET ScriptPaths, pl \in Platforms :
         rs = [pc |-> "call", path |-> p, files |-> f, platform |-> pl,
               result |-> NotFound]

\* the call is made
Resolve ==
    /\ rs.pc = "call"
    /\ rs' = [rs EXCEPT !.pc = "done",
                        !.result = ResolveScript(rs.path, rs.files, rs.platform)]
    /\ UNCHANGED <<registry, lock, hd, wt, th, nSpawned, capture, cm>>

SpecResolve == InitResolve /\ [][Resolve]_vars

(* ---------------------------------------------------------------------- *)
(* ConfigManager (config_manager.py)                                       *)
(* ---------------------------------------------------------------------- *)
\* str(uuid.uuid4()) of the k-th add
ConfigIds == <<"u1", "u2", "u3", "u4">>
\* ids a caller may pass: those add has returned and one it never returned
AskedIds == {ConfigIds[k] : k \in 1..MaxConfigs} \cup {"zz"}
\* values of the name field
ConfigNames == {"X", "Y"}

\* ServerConfig(id=sid, name=partial["name"], start_script=partial[...],
\* cwd=partial.get("cwd"), env=partial.get("env"),
\* force_kill_on_stop=bool(partial.get("force_kill_on_stop", False)))
ServerConfig(sid, partial) ==
    [id |-> sid, name |-> partial.name, start_script |-> partial.start_script,
     cwd |-> "None", env |-> "None", force_kill_on_stop |-> FALSE]

\* the dicts passed to add: name and start_script
Partials == [name : ConfigNames, start_script : {"run.sh"}]

\* the dicts passed to update, as their items in order: empty, or one key
\* with a value
Updates ==
    {<<>>} \cup {<<[k |-> "name", v |-> n]>> : n \in ConfigNames}
           \cup {<<[k |-> "id", v |-> i]>> : i \in AskedIds}
           \cup {<<[k |-> "bogus", v |-> "1"]>>}

\* hasattr(s, k) for a ServerConfig s
HasAttr(k) ==
    k \in {"id", "name", "start_script", "cwd", "env", "force_kill_on_stop"}

\* "for k, v in update.items(): if hasattr(s, k): setattr(s, k, v)"
RECURSIVE SetAttrs(_, _)
SetAttrs(rec, items) ==
    IF Len(items) = 0 THEN rec
    ELSE SetAttrs(IF HasAttr(Head(items).k)
                  THEN [rec EXCEPT ![Head(items).k] = Head(items).v]
                  ELSE rec,
                  Tail(items))

\* "for s in self.load_all(): if s.id == server_id: return s" / "return None":
\* the result as a sequence of at most one record
RECURSIVE Get(_, _)
Get(file, sid) ==
    IF Len(file) = 0 THEN <<>>
    ELSE IF Head(file).id = sid THEN <<Head(file)>> ELSE Get(Tail(file), sid)

\* index of the first record with the id, 0 if there is none
RECURSIVE IndexOf(_, _, _)
IndexOf(file, sid, i) ==
    IF i > Len(file) THEN 0
    ELSE IF file[i].id = sid THEN i ELSE IndexOf(file, sid, i + 1)

\* new = [s for s in servers if s.id != server_id]
RECURSIVE Without(_, _)
Without(file, sid) ==
    IF Len(file) = 0 THEN <<>>
    ELSE IF Head(file).id = sid THEN Without(Tail(file), sid)
         ELSE <<Head(file)>> \o Without(Tail(file), sid)

\* ConfigManager(path) on a path with no file: _ensure_file saves []
InitConfig ==
    /\ InitSupervisor
    /\ rs = NoResolve
    /\ cm = [pc |-> "ready", file |-> <<>>, made |-> 0,
             last |-> [op |-> "none", id |-> "none", items |-> <<>>, res |-> <<>>,
                       ok |-> FALSE]]

\* add(partial): load_all, append the new record, save_all, return it
ConfigAdd ==
    /\ cm.pc = "ready"
    /\ cm.made < MaxConfigs
    /\ \E partial \in Partials :
         LET sc == ServerConfig(ConfigIds[cm.made + 1], partial) IN
           cm' = [cm EXCEPT !.file = Append(@, sc), !.made = @ + 1,
                            !.last = [op |-> "add", id |-> sc.id, items |-> <<>>,
                                      res |-> <<sc>>, ok |-> TRUE]]
    /\ UNCHANGED <<registry, lock, hd, wt, th, nSpawned, capture, rs>>

\* update(server_id, update): the first record with the id gets the
\* attributes, the list is saved and the record returned; None if no record
ConfigUpdate ==
    /\ cm.pc = "ready"
    /\ \E sid \in AskedIds, items \in Updates :
         LET i == IndexOf(cm.file, sid, 1) IN
           IF i = 0
           THEN cm' = [cm EXCEPT !.last = [op |-> "update", id |-> sid,
                                           items |-> items, res |-> <<>>,
                                           ok |-> FALSE]]
           ELSE LET s == SetAttrs(cm.file[i], items) IN
                  cm' = [cm EXCEPT !.file = [@ EXCEPT ![i] = s],
                                   !.last = [op |-> "update", id |-> sid,
                                             items |-> items, res |-> <<s>>,
                                             ok |-> TRUE]]
    /\ UNCHANGED <<registry, lock, hd, wt, th, nSpawned, capture, rs>>

\* remove(server_id): the list without the records of the id is saved and
\* True returned; False, and nothing saved, if it is as long as before
ConfigRemove ==
    /\ cm.pc = "ready"
    /\ \E sid \in AskedIds :
         LET new == Without(cm.file, sid) IN
           IF Len(new) = Len(cm.file)
           THEN cm' = [cm EXCEPT !.last = [op |-> "remove", id |-> sid,
                                           items |-> <<>>, res |-> <<>>,
                                           ok |-> FALSE]]
           ELSE cm' = [cm EXCEPT !.file = new,
                                 !.last = [op |-> "remove", id |-> sid,
                                           items |-> <<>>, res |-> <<>>,
                                           ok |-> TRUE]]
    /\ UNCHANGED <<registry, lock, hd, wt, th, nSpawned, capture, rs>>

\* get(server_id)
ConfigGet ==
    /\ cm.pc = "ready"
    /\ \E sid \in AskedIds :
         cm' = [cm EXCEPT !.last = [op |-> "get", id |-> sid, items |-> <<>>,
                                    res |-> Get(cm.file, sid),
                                    ok |-> Get(cm.file, sid) # <<>>]]
    /\ UNCHANGED <<registry, lock, hd, wt, th, nSpawned, capture, rs>>

NextConfig == ConfigAdd \/ ConfigUpdate \/ ConfigRemove \/ ConfigGet

SpecConfig == InitConfig /\ [][NextConfig]_vars

(* ---------------------------------------------------------------------- *)
(* Properties                                                              *)
(* ---------------------------------------------------------------------- *)
\* positions inside stop_server
StopPcs == {"stop_acq", "stop_get", "stop_flag", "stop_send", "stop_write",
            "stop_loop", "stop_sleep", "stop_chk", "stop_kill", "stop_ret"}

\* e occurs in the sequence q
Occurs(e, q) == \E i \in 1..Len(q) : q[i] = e

\* h was spawned by a start_server call that has not yet registered it
BeingRegistered(h) ==
    \E c \in Callers : th[c].mine = h /\ th[c].pc \in {"st_reg_acq", "st_reg"}

\* C1: under any interleaving of start_server and restart_server calls for
\* one server id there are never two live children spawned for that id, and
\* every live child (once its start has registered it) is the one the
\* registry entry of its id holds.
C1_OneLiveChildPerId ==
    /\ \A g, h \in Handles :
         hd[g].alive /\ hd[h].alive /\ hd[g].sid = hd[h].sid => g = h
    /\ \A h \in Handles :
         hd[h].alive /\ ~BeingRegistered(h) => registry[hd[h].sid] = h

\* C2: on every intentional-stop path the stop-requested flag of a handle is
\* true before a graceful command or a kill is sent to it, so no handle whose
\* child was killed gets a "[PROCESS EXITED]" marker or a crash log.
C2_FlagBeforeSignal ==
    \A h \in Handles :
      /\ ~hd[h].rawSignal
      /\ hd[h].exit = "killed" => hd[h].markers = 0 /\ hd[h].logs = 0

\* every watcher thread that was or will be started has run to its end
WatchersFinished ==
    /\ \A w \in Handles : wt[w].pc \in {"off", "w_done"}
    /\ \A c \in Callers : th[c].pc \notin {"st_reg_acq", "st_reg", "st_watch"}

\* C3: a handle started with an output callback whose child terminated with no
\* stop_server called on it before has, once the watchers have finished,
\* received exactly one marker line carrying the exit code and had its crash
\* log written exactly once, whatever calls for the id came later.
C3_UnexpectedExitReportedOnce ==
    \A h \in Handles :
      hd[h].unexpected /\ hd[h].hasCb /\ WatchersFinished
        => /\ hd[h].markers = 1
           /\ hd[h].markerRc = ReturnCode(h)
           /\ hd[h].logs = 1

\* first element of q, "none" for the empty sequence
First(q) == IF Len(q) = 0 THEN "none" ELSE q[1]

\* the order of the steps of one stop_server call
StopOrder(e) ==
    /\ Len(e) >= 1 => e[1] \in {"get_none", "get_live", "get_exited"}
    /\ Len(e) >= 2 => e[1] # "get_none" /\ e[2] = "flag"
    /\ Len(e) >= 3 => e[3] \in {"cmd_sent", "cmd_failed"}
    /\ \A i \in 4..Len(e) :
         /\ e[i] \in {"poll_alive", "poll_exited", "sleep", "kill"}
         /\ e[i] = "sleep" => e[i-1] = "poll_alive"
         /\ e[i] = "kill" => i > 4 /\ e[i-1] = "poll_alive"
         /\ e[i] \in {"sleep", "kill"} =>
              \A j \in 4..(i-1) : e[j] \notin {"poll_exited", "kill"}

\* C4: within one stop_server call on a registered handle the flag is set
\* first, then the graceful command is attempted, then the process is polled
\* until it has exited or the timeout has elapsed, and a kill is issued only
\* after a poll that found it alive once that wait is over; a call whose
\* command could not be sent still waits and still kills, and no kill follows
\* a poll that found the process exited.
C4_StopStepsInOrder ==
    \A c \in Callers :
      /\ StopOrder(th[c].ev)
      /\ Occurs("kill", th[c].ev) => th[c].elapsed >= th[c].timeout
      /\ th[c].pc = "ret" /\ th[c].op = "stop" /\ First(th[c].ev) # "get_none"
           => /\ Len(th[c].ev) >= 5
              /\ \/ Occurs("kill", th[c].ev)
                 \/ th[c].ev[Len(th[c].ev)] = "poll_exited"

\* a call whose graceful command failed has waited, killed and returned
C4_Witness ==
    \E c \in Callers :
      /\ th[c].pc = "ret" /\ th[c].op = "stop"
      /\ Len(th[c].ev) >= 3 /\ th[c].ev[3] = "cmd_failed"
      /\ Occurs("sleep", th[c].ev)
      /\ Occurs("kill", th[c].ev)

\* C5: every stop_server call returns, whatever the child does.
C5_StopAlwaysReturns ==
    \A c \in Callers : (th[c].pc \in StopPcs) ~> (th[c].pc \notin StopPcs)

\* C6: stop_server returns true only if there was no handle or the process of
\* its handle has terminated, and false only if it polled the process alive
\* after having called kill.
C6_ResultMeansTerminated ==
    [][\A c \in Callers :
         th[c].stopRes = "none" /\ th'[c].stopRes # "none" =>
           LET h == th[c].sp IN
             /\ th'[c].stopRes = "true" =>
                  \/ th[c].pc = "stop_get" /\ registry[th[c].sid] = NoHandle
                  \/ h # NoHandle /\ ~hd'[h].alive
             /\ th'[c].stopRes = "false" =>
                  h # NoHandle /\ hd[h].alive /\ Occurs("kill", th[c].ev)]_vars

\* a stop_server call has returned false
C6_Witness ==
    \E c \in Callers :
      th[c].pc = "ret" /\ th[c].op = "stop" /\ th[c].ret = "false"

\* C7: a stop_server call whose lookup finds no handle, or a handle whose
\* process has exited, returns true without raising and calls no kill, and no
\* step of stop_server changes the registry; so a stop after a successful stop
\* returns true again.
C7_StopWithoutLiveHandle ==
    [][\A c \in Callers :
         th[c].pc \in StopPcs /\ th'[c] # th[c] =>
           /\ registry' = registry
           /\ Occurs("kill", th'[c].ev) => First(th'[c].ev) = "get_live"
           /\ th'[c].stopRes = "false" => First(th[c].ev) = "get_live"
           /\ th'[c].pc = "ret" => th'[c].ret \in {"true", "false"}]_vars

\* a stop_server call on a handle whose child an earlier stop had killed has
\* returned true
C7_Witness ==
    \E c \in Callers :
      /\ th[c].pc = "ret" /\ th[c].op = "stop" /\ th[c].ret = "true"
      /\ First(th[c].ev) = "get_exited"
      /\ hd[th[c].sp].exit = "killed"

\* C8: a stop_server call with timeout 0 never sleeps: after the command the
\* process is polled and, if alive, killed at once.
C8_NoWaitAtTimeoutZero ==
    \A c \in Callers :
      th[c].timeout = 0 =>
        /\ ~Occurs("sleep", th[c].ev)
        /\ Len(th[c].ev) <= 7

\* a stop_server call with timeout 0 has sent the command, killed and returned
C8_Witness ==
    \E c \in Callers :
      /\ th[c].pc = "ret" /\ th[c].op = "stop" /\ th[c].timeout = 0
      /\ Len(th[c].ev) >= 3 /\ th[c].ev[3] = "cmd_sent"
      /\ Occurs("kill", th[c].ev)

\* C9: when restart_server has returned normally the registry maps the id to
\* the handle that this restart's own start created.
C9_RestartRegistersOwnHandle ==
    \A c \in Callers :
      th[c].op = "restart" /\ th[c].pc = "ret" /\ th[c].ret = "none"
        => th[c].mine # NoHandle /\ registry[th[c].sid] = th[c].mine

\* C10: a start_server call whose check finds the id mapped to a handle with a
\* live process returns at once without raising and leaves the registry, every
\* handle, the watchers and the number of children as they were.
C10_DuplicateStartIsNoOp ==
    [][\A c \in Callers :
         /\ th[c].pc = "st_check" /\ th'[c].pc # "st_check"
         /\ registry[th[c].sid] # NoHandle
         /\ hd[registry[th[c].sid]].alive
         => /\ th'[c].pc = "ret" /\ th'[c].ret = "none"
            /\ th'[c].mine = NoHandle
            /\ UNCHANGED <<registry, hd, wt, nSpawned>>]_vars

\* a start_server call on a running id has returned as a no-op
C10_Witness ==
    \E c \in Callers :
      /\ th[c].pc = "ret" /\ th[c].op = "start" /\ th[c].dup
      /\ registry[th[c].sid] # NoHandle

\* number of occurrences of e in the sequence q
Count(e, q) == Cardinality({i \in 1..Len(q) : q[i] = e})

RECURSIVE OfStream(_, _)
OfStream(q, l) ==
    IF Len(q) = 0 THEN <<>>
    ELSE IF Head(q)[1] = l THEN <<Head(q)>> \o OfStream(Tail(q), l)
         ELSE OfStream(Tail(q), l)

\* p is an initial part of q
IsPrefix(p, q) == Len(p) <= Len(q) /\ SubSeq(q, 1, Len(p)) = p

\* C12: the lines of one stream are in the handle's buffer and in what the
\* callback received in the order they were read, whatever the other stream
\* interleaves; each line is appended before it is delivered and delivered
\* before the next line of its stream is read.
C12_StreamOrderKept ==
    \A h \in Captured, l \in Labels :
      LET B == OfStream(console[h].lines, l)
          D == OfStream(console[h].delivered, l)
          S == rd[h][l].seen
      IN /\ IsPrefix(D, B) /\ IsPrefix(B, S)
         /\ Len(S) <= Len(D) + 1
         /\ rd[h][l].pc = "read" /\ Len(streams[h][l].pipe) > 0 => Len(B) = Len(S)
         /\ rd[h][l].pc = "read" => D = S
         /\ rd[h][l].pc = "deliver" => B = S

\* both lines of both streams were captured and delivered, and a line of
\* stderr lies between the two lines of stdout in the buffer
C12_Witness ==
    \E h \in Captured :
      /\ Len(console[h].delivered) = 2 * MaxLines
      /\ Len(console[h].lines) = 2 * MaxLines
      /\ \E i, j, k \in 1..Len(console[h].lines) :
           /\ i < j /\ j < k
           /\ console[h].lines[i][1] = "OUT"
           /\ console[h].lines[j][1] = "ERR"
           /\ console[h].lines[k][1] = "OUT"

\* C13: the stop-requested flag of a handle, once true, stays true: no step
\* of any start, stop, restart or send_command call or of a watcher resets it.
C13_StopFlagNeverReset ==
    [][\A h \in Handles : hd[h].stopReq => hd'[h].stopReq]_vars

\* a restart has replaced a handle whose flag a stop had set: the old handle
\* keeps its flag, the new handle of the id has its own, not set
C13_Witness ==
    \E g, h \in Handles :
      /\ g # h /\ hd[g].sid = hd[h].sid
      /\ hd[g].stopReq /\ ~hd[h].stopReq
      /\ registry[hd[h].sid] = h

\* watcher w is in the unexpected-exit branch, which ends with the crash log
\* opened, written and closed
WritingLog(w) == wt[w].pc = "w_report"

\* the file name watcher w writes its crash log to
LogFileOf(w) == LogName(DisplayName(hd[wt[w].sp].sid))

\* C14: a crash log is written only for a handle whose child terminated and
\* was not killed by the supervisor, at most once for each handle, and no two
\* watchers are at the same time in the branch that writes the same log file.
C14_CrashLogWrittenOnceAlone ==
    /\ \A h \in Handles : hd[h].logs > 0 => hd[h].exit = "exited"
    /\ \A h \in Handles : hd[h].logs <= 1
    /\ \A v, w \in Handles :
         v # w /\ WritingLog(v) /\ WritingLog(w) => LogFileOf(v) # LogFileOf(w)

\* handle h was spawned by a start_server call that has returned
StartReturned(h) ==
    /\ hd[h].exit # "unused"
    /\ \A c \in Callers : th[c].mine = h => th[c].pc = "ret"

\* a start_server call for id s has returned after spawning a child
Started(s) == \E h \in Handles : hd[h].sid = s /\ StartReturned(h)

\* C15: get_console returns None only if no start of the id has returned
\* before, and always if no child was ever spawned for the id; otherwise it
\* returns the joined lines of the buffer of the handle it found.
C15_ConsoleKnownOnceStarted ==
    [][\A c \in Callers :
         /\ th[c].pc = "gc_get" /\ th'[c].pc # "gc_get" =>
              /\ th'[c].ret = "None" => ~Started(th[c].sid)
              /\ th'[c].ret # "None" =>
                   \E h \in Handles : hd[h].sid = th[c].sid /\ hd[h].exit # "unused"
         /\ th[c].pc = "gc_collect" /\ th'[c].pc = "ret" =>
              /\ th'[c].ret = "text"
              /\ th'[c].out = JoinLines(StdoutLines(th[c].sp))]_vars

\* C16: is_running returns true while a child of the id whose start has
\* returned is alive and has not been sent a kill (it returns false only if
\* there is no such child when its lookup finds no entry, or the child it
\* found has terminated), and returns false for an id for which nothing was
\* ever spawned.
C16_RunningWhileChildAlive ==
    [][\A c \in Callers :
         th[c].op = "running" /\ th[c].pc # "ret" /\ th'[c].pc = "ret" =>
           /\ th'[c].ret = "false" =>
                ~\E h \in Handles :
                    /\ hd[h].sid = th[c].sid /\ StartReturned(h)
                    /\ hd[h].alive /\ ~hd[h].killPending
                    /\ th[c].pc = "ir_get" \/ th[c].sp = h
           /\ th'[c].ret = "true" =>
                \E h \in Handles : hd[h].sid = th[c].sid /\ hd[h].exit # "unused"]_vars

\* C17: a start_server call whose script cannot be resolved ends at once with
\* FileNotFoundError raised to its caller; it has spawned no child, started no
\* reader and no watcher, and the step leaves the registry and every handle as
\* they were.
C17_ScriptNotFoundChangesNothing ==
    [][\A c \in Callers :
         th[c].ret # "FileNotFoundError" /\ th'[c].ret = "FileNotFoundError" =>
           /\ th[c].pc = "st_check" /\ th'[c].pc = "ret"
           /\ th'[c].mine = NoHandle
           /\ UNCHANGED <<registry, hd, wt, nSpawned, rd, streams, console>>]_vars

\* a start_server call for an id whose entry holds an exited process has
\* failed with FileNotFoundError, and the entry is still there
C17_Witness ==
    \E c \in Callers :
      /\ th[c].pc = "ret" /\ th[c].op = "start"
      /\ th[c].ret = "FileNotFoundError"
      /\ registry[th[c].sid] # NoHandle
      /\ ~hd[registry[th[c].sid]].alive

\* the path with its last part replaced by ext
Sibling(path, ext) == SubSeq(path, 1, Len(path) - 1) \o <<ext>>

\* the host of the call is a Windows platform
OnWindows == rs.platform = <<"W", "i", "n", "d", "o", "w", "s">>

\* C18: _resolve_script returns the given path when it exists; when it does
\* not, a .sh path on Windows gives its existing .bat sibling and a .bat path
\* elsewhere gives its existing .sh sibling; everything else fails with
\* FileNotFoundError, so the result is never another path nor a missing one.
C18_ResolveScriptPolicy ==
    rs.pc = "done" =>
      LET p == rs.path
          isSh == Len(p) >= 2 /\ p[Len(p)] = "sh"
          isBat == Len(p) >= 2 /\ p[Len(p)] = "bat"
      IN /\ p \in rs.files => rs.result = Found(p)
         /\ p \notin rs.files /\ OnWindows /\ isSh /\ Sibling(p, "bat") \in rs.files
              => rs.result = Found(Sibling(p, "bat"))
         /\ p \notin rs.files /\ ~OnWindows /\ isBat /\ Sibling(p, "sh") \in rs.files
              => rs.result = Found(Sibling(p, "sh"))
         /\ rs.result.ok =>
              /\ rs.result.path \in rs.files
              /\ \/ rs.result.path = p
                 \/ OnWindows /\ isSh /\ rs.result.path = Sibling(p, "bat")
                 \/ ~OnWindows /\ isBat /\ rs.result.path = Sibling(p, "sh")
         /\ ~rs.result.ok => rs.result = NotFound

\* run.sh was asked for on Windows where only run.bat exists, and run.bat
\* was returned
C18_Witness ==
    /\ rs.pc = "done" /\ OnWindows
    /\ rs.path = <<"run", "sh">> /\ rs.files = {<<"run", "bat">>}
    /\ rs.result = Found(<<"run", "bat">>)

\* the record with the fields an update names set to its values, names that
\* are no field of a record ignored
RECURSIVE WithFields(_, _)
WithFields(rec, items) ==
    IF Len(items) = 0 THEN rec
    ELSE WithFields(IF Head(items).k \in DOMAIN rec
                    THEN [rec EXCEPT ![Head(items).k] = Head(items).v]
                    ELSE rec,
                    Tail(items))

\* C19: the configuration store is a map keyed by server id.  After add, get
\* of the new id returns the created record; after update of a known id, get
\* of that id returns the record with the updated fields; after a successful
\* remove, get of the id returns None; update and remove of an unknown id
\* return None and False and change nothing; get changes nothing; and no call
\* changes what get returns for any other id.
C19_ConfigStoreIsMap ==
    [][cm'.last # cm.last \/ cm'.file # cm.file =>
         LET op == cm'.last.op
             sid == cm'.last.id
             before == Get(cm.file, sid)
             after == Get(cm'.file, sid)
         IN /\ \A j \in AskedIds : j # sid => Get(cm'.file, j) = Get(cm.file, j)
            /\ op = "add" => before = <<>> /\ after = cm'.last.res
            /\ op = "get" => cm'.file = cm.file /\ cm'.last.res = before
            /\ op = "update" /\ before = <<>> =>
                 cm'.file = cm.file /\ cm'.last.res = <<>>
            /\ op = "update" /\ before # <<>> =>
                 /\ after = <<WithFields(before[1], cm'.last.items)>>
                 /\ cm'.last.res = after
            /\ op = "remove" /\ before = <<>> =>
                 cm'.file = cm.file /\ ~cm'.last.ok
            /\ op = "remove" /\ before # <<>> =>
                 after = <<>> /\ cm'.last.ok]_vars

\* C20: when a restart_server call spawns the replacement child, no child
\* spawned earlier for the id is still alive.
C20_RestartSpawnsAfterOldDied ==
    [][\A c \in Callers :
         /\ th[c].op = "restart" /\ th[c].pc = "st_spawn"
         /\ th'[c].pc = "st_reg_acq"
         => \A g \in Handles : hd[g].sid = th[c].sid => ~hd[g].alive]_vars

\* the positions of a caller inside a "with self._lock:" block: the map lookup,
\* insert or delete it was entered for
LockedPcs ==
    {"stop_get", "rs_get", "rs_del", "st_check", "st_reg", "sc_get", "ir_get",
     "gc_get"}

\* the positions where a caller may wait for a child: a write to its stdin
\* and stop_server's poll-and-sleep loop
BlockingPcs == {"stop_write", "sc_write", "sc_fallback", "stop_loop", "stop_sleep"}

\* caller c is stopped by a child: in a write to a full stdin pipe
BlockedInWrite(c) ==
    /\ th[c].pc \in {"stop_write", "sc_write"}
    /\ hd[th[c].sp].alive /\ hd[th[c].sp].stdinOpen
    /\ hd[th[c].sp].pipe = PipeCap

\* C21: the registry lock is held only for a map lookup, insert or delete.
\* A caller that holds it is inside one of the "with self._lock:" blocks and
\* not in a stdin write or in the poll-and-sleep loop, a watcher that holds it
\* is at its lookup and not in its wait-for-exit or in the output callback,
\* and the step that releases the lock can always be taken, whatever any
\* child does.
C21_LockOnlyForMapAccess ==
    /\ lock \in {NoThread} \cup Callers \cup {WatcherTid(w) : w \in Handles}
    /\ \A c \in Callers :
         lock = c =>
           /\ th[c].pc \in LockedPcs
           /\ th[c].pc \notin BlockingPcs
           /\ ENABLED (CallerStep(c) \/ SendStep(c) \/ QueryStep(c))
    /\ \A w \in Handles :
         lock = WatcherTid(w) =>
           /\ wt[w].pc = "w_get"
           /\ ENABLED WatchGet(w)

\* a caller is stopped in a write to the full stdin pipe of a live child
\* while the other caller holds the registry lock for its own lookup
C21_Witness ==
    \E c, d \in Callers :
      /\ c # d
      /\ BlockedInWrite(c)
      /\ lock = d

\* C22: a handle leaves the registry when an explicit stop_server on it
\* completes: when a stop_server call that found a registered handle returns
\* true, the registry does not map the id to that handle.
C22_StoppedHandleLeavesRegistry ==
    [][\A c \in Callers :
         /\ th[c].op = "stop" /\ th[c].sp # NoHandle
         /\ th[c].pc # "ret" /\ th'[c].pc = "ret" /\ th'[c].ret = "true"
         => registry'[th[c].sid] # th[c].sp]_vars

\* a reader thread of handle h has ended in "except Exception"
ReaderFailed(h, l) == rd[h][l].pc = "failed"

\* the reader of stream l of handle h fails in this step
ReaderFails(h, l) == ~ReaderFailed(h, l) /\ rd'[h][l].pc = "failed"

\* C23: a failure in one capture task (a read error or an exception of the
\* output callback) ends only that task.  The step in which a reader fails
\* changes no caller's state, not the other reader or its stream, not the
\* watcher and not the buffer; no supervisor call ever returns anything but
\* its result; the buffer only grows, and get_console returns all of it;
\* and once a reader has failed and the child has terminated, the other
\* reader comes to the end of its stream with its pipe drained (unless it
\* fails itself) and the watcher comes to the end of its exit handling.
C23_ReaderFailureIsContained ==
    /\ [][\A h \in Captured, l \in Labels :
            /\ IsPrefix(console[h].lines, console'[h].lines)
            /\ ReaderFails(h, l) =>
                 /\ th' = th /\ wt' = wt /\ hd' = hd /\ registry' = registry
                 /\ console'[h].lines = console[h].lines
                 /\ \A m \in Labels \ {l} :
                      rd'[h][m] = rd[h][m] /\ streams'[h][m] = streams[h][m]]_vars
    /\ [][\A c \in Callers :
            th[c].pc = "gc_collect" /\ th'[c].pc = "ret" =>
              /\ th'[c].ret = "text"
              /\ th'[c].out = JoinLines(console[th[c].sp].lines)]_vars
    /\ [](\A c \in Callers : th[c].ret \in {"none", "None", "text"})
    /\ ((\E l \in Labels : ReaderFailed(1, l)) /\ ~hd[1].alive)
         ~> /\ wt[1].pc = "w_done"
            /\ \A m \in Labels :
                 \/ rd[1][m].pc = "done" /\ streams[1][m].pipe = <<>>
                 \/ ReaderFailed(1, m)

\* the stdout reader has ended on an exception of the callback after it had
\* appended its line; the stderr reader has captured and delivered every line
\* of its stream and ended at end-of-stream, the watcher has handled the
\* exit, and a get_console call has returned the whole buffer
C23_Witness ==
    /\ ReaderFailed(1, "OUT")
    /\ Len(OfStream(console[1].lines, "OUT")) > Len(OfStream(console[1].delivered, "OUT"))
    /\ rd[1]["ERR"].pc = "done"
    /\ Len(OfStream(console[1].delivered, "ERR")) = MaxLines
    /\ wt[1].pc = "w_done"
    /\ \E c \in Callers :
         /\ th[c].pc = "ret" /\ th[c].ret = "text"
         /\ th[c].out = JoinLines(console[1].lines)
         /\ Len(console[1].lines) = MaxLines + 1

====
